---- MODULE Spec2Model ----
(***************************************************************************)
(* Model of the football-ai backend services:                              *)
(*   backend/app/services/espn_service.py     (ESPNService, Provider A)    *)
(*   backend/app/services/sleeper_service.py  (SleeperService, Provider B) *)
(*   backend/app/services/hybrid_service.py   (HybridNFLService)           *)
(*                                                                         *)
(* Python strings that the code lower-cases, strips or searches are        *)
(* sequences of one-character strings; closed vocabularies (team and       *)
(* position abbreviations, ids, injury words) are TLA+ strings.            *)
(*                                                                         *)
(* Four specifications share the variables:                                *)
(*   SpecMatch  the name-matching expressions as pure functions            *)
(*   SpecGroup  the position-group functions as pure functions             *)
(*   SpecCache  concurrent tasks reading the two provider caches           *)
(*   Spec       sequential calls of the adapter / aggregation handlers     *)
(***************************************************************************)
EXTENDS Naturals, Sequences, FiniteSets, TLC

VARIABLES
    mq, mc, mres,        \* SpecMatch: query, candidate name, the two verdicts;
                         \* SpecGroup: two positions, their groups and the tests
    espnTeams,           \* upstream: content of GET /teams (team listing)
    rosterBody,          \* upstream: content of GET /teams/{id}/roster, per id
    sleeperBody,         \* upstream: content of GET /players/nfl
    _team_rosters,       \* ESPNService._team_rosters
    _players_cache,      \* SleeperService._players_cache
    pc, arg,             \* SpecCache: where each task is suspended, its team id
    ev,                  \* SpecCache: the call that returned last
    hist,                \* SpecCache: per key, the last successful read and the first store
    player_data,         \* Spec: the record built by get_complete_player_data
    out                  \* Spec: the handler call that returned last

vars == <<mq, mc, mres, espnTeams, rosterBody, sleeperBody, _team_rosters,
          _players_cache, pc, arg, ev, hist, player_data, out>>

-----------------------------------------------------------------------------
(* Python str operations.                                                  *)

\* Longest candidate / query string enumerated by SpecMatch.
MaxLen == 2

Chars == {"a", "b", "A", " "}

LowerChar(c) == CASE c = "A" -> "a"
                  [] c = "B" -> "b"
                  [] c = "C" -> "c"
                  [] OTHER -> c

\* str.lower()
Lower(s) == [i \in DOMAIN s |-> LowerChar(s[i])]

RECURSIVE LStrip(_)
LStrip(s) == IF s # <<>> /\ Head(s) = " " THEN LStrip(Tail(s)) ELSE s

RECURSIVE RStrip(_)
RStrip(s) == IF s # <<>> /\ s[Len(s)] = " "
             THEN RStrip(SubSeq(s, 1, Len(s) - 1)) ELSE s

\* str.strip()
Strip(s) == RStrip(LStrip(s))

\* Python "a in b" on str: a occurs in b as a contiguous substring.
IsSubstr(a, b) ==
    /\ Len(a) <= Len(b)
    /\ \E i \in 0..(Len(b) - Len(a)) : SubSeq(b, i + 1, i + Len(a)) = a

RECURSIVE StrsOfLen(_)
StrsOfLen(n) == IF n = 0 THEN {<<>>}
                ELSE {Append(s, c) : s \in StrsOfLen(n - 1), c \in Chars}

Strs == UNION {StrsOfLen(n) : n \in 0..MaxLen}

-----------------------------------------------------------------------------
(* Name matching, as each provider writes it.                              *)

\* search_player, lines 23 and 47: only the query is stripped.
EspnSearchTerm(player_name) == Strip(Lower(player_name))

EspnAthleteName(displayName) == Lower(displayName)

\* search_player, lines 50-54: an empty athlete name is skipped, then the
\* bidirectional containment test.
EspnNameMatches(player_name, displayName) ==
    LET search_term  == EspnSearchTerm(player_name)
        athlete_name == EspnAthleteName(displayName)
    IN  /\ athlete_name # <<>>
        /\ IsSubstr(search_term, athlete_name) \/ IsSubstr(athlete_name, search_term)

\* get_player_by_name, lines 40-45: no skip of empty names.
SleeperNameMatches(name, full_name_raw) ==
    LET search_name == Strip(Lower(name))
        full_name   == Lower(full_name_raw)
    IN  IsSubstr(search_name, full_name) \/ IsSubstr(full_name, search_name)

-----------------------------------------------------------------------------
(* Upstream payloads.                                                      *)

\* A failed request: httpx raises (network error / timeout), raise_for_status
\* raises (non-2xx), response.json() raises (body is not JSON).
FailKinds == {"neterr", "http", "badjson"}
Outcomes  == {"ok"} \cup FailKinds

TeamIds == {"1", "2"}

\* Entries of GET /teams, in listing order.
TeamKC  == [id |-> "1", abbreviation |-> "KC",  displayName |-> "Chiefs"]
TeamBAL == [id |-> "2", abbreviation |-> "BAL", displayName |-> "Ravens"]

\* The 'team' key of a roster item before search_player sets it.
NoTeam == [set |-> FALSE, id |-> "", abbreviation |-> "", displayName |-> ""]

\* A roster item.  nameK / posK say whether the JSON field is a value of the
\* expected type ("str" / "obj"), null, or missing from the object.
Athlete(id, nameK, displayName, posK, abbr) ==
    [isDict |-> TRUE, id |-> id, nameK |-> nameK, displayName |-> displayName,
     posK |-> posK, abbr |-> abbr, team |-> NoTeam]

NotADict == [isDict |-> FALSE, id |-> "", nameK |-> "missing", displayName |-> <<>>,
             posK |-> "missing", abbr |-> "", team |-> NoTeam]

E_Ab      == Athlete("e1", "str", <<"A", "b">>, "obj", "QB")
E_Bc      == Athlete("e2", "str", <<"B", "c">>, "obj", "QB")
E_AbNoPos == Athlete("e3", "str", <<"A", "b">>, "null", "")
E_NoName  == Athlete("e4", "null", <<>>, "obj", "WR")
E_Empty   == Athlete("e5", "str", <<>>, "obj", "TE")
E_Unnamed == Athlete("e6", "missing", <<>>, "obj", "TE")
E_Cb      == Athlete("e7", "str", <<"C", "b">>, "obj", "FB")
E_BcRB    == Athlete("e8", "str", <<"B", "c">>, "missing", "")

Group(items) == [hasItems |-> TRUE, items |-> items]
NoItems      == [hasItems |-> FALSE, items |-> <<>>]

RosterDict(groups) == [shape |-> "dict", groups |-> groups]
RosterScalar       == [shape |-> "scalar", groups |-> <<>>]

RosterKC      == RosterDict(<<Group(<<E_Ab>>), NoItems, Group(<<E_Bc>>)>>)
RosterNoPos   == RosterDict(<<Group(<<E_AbNoPos, E_Bc>>)>>)
RosterNoName  == RosterDict(<<Group(<<E_Bc, E_NoName, E_Ab>>)>>)
RosterOdd     == RosterDict(<<Group(<<NotADict, E_Empty, E_Unnamed, E_Ab>>)>>)
RosterEmpty   == RosterDict(<<>>)
RosterBAL     == RosterDict(<<Group(<<E_BcRB, E_Cb>>)>>)

\* An entry of the Sleeper player map.  team / position / injury_status /
\* injury_body_part "" stand for a missing, null or empty field (all falsy).
SleeperPlayer(sid, nameK, full_name, team, position, injury_status, part) ==
    [isDict |-> TRUE, sid |-> sid, nameK |-> nameK, full_name |-> full_name,
     team |-> team, position |-> position, injury_status |-> injury_status,
     injury_body_part |-> part, sleeper_id |-> ""]

SleeperNotADict == [isDict |-> FALSE, sid |-> "s0", nameK |-> "missing",
                    full_name |-> <<>>, team |-> "", position |-> "",
                    injury_status |-> "", injury_body_part |-> "", sleeper_id |-> ""]

S_Ab      == SleeperPlayer("s1", "str", <<"A", "b">>, "KC", "QB", "Out", "Knee")
S_Bc      == SleeperPlayer("s2", "str", <<"B", "c">>, "kc", "qb", "Questionable", "")
S_AbOk    == SleeperPlayer("s3", "str", <<"a", "b">>, "KC", "QB", " ", "")
S_NoName  == SleeperPlayer("s4", "null", <<>>, "KC", "QB", "Out", "")
S_Unnamed == SleeperPlayer("s5", "missing", <<>>, "BAL", "RB", "Out", "")
S_Cb      == SleeperPlayer("s6", "str", <<"C", "b">>, "BAL", "RB", "Doubtful", "Calf")
S_AbBAL   == SleeperPlayer("s7", "str", <<"A", "b">>, "BAL", "WR", "Out", "")

SleeperDict(entries) == [shape |-> "dict", entries |-> entries]

SleeperUsual  == SleeperDict(<<S_Bc, S_Ab>>)
SleeperOthers == SleeperDict(<<S_Bc, S_Cb>>)
SleeperBlank  == SleeperDict(<<S_AbOk, S_Bc>>)
SleeperMoved  == SleeperDict(<<S_AbBAL, S_Bc>>)
SleeperNoName == SleeperDict(<<S_Bc, S_NoName, S_Ab>>)
SleeperOdd    == SleeperDict(<<SleeperNotADict, S_Cb, S_Unnamed>>)
SleeperAnon   == SleeperDict(<<S_Bc, S_Unnamed, S_Ab>>)
SleeperEmpty  == SleeperDict(<<>>)
SleeperScalar == [shape |-> "scalar", entries |-> <<>>]
SleeperNull   == [shape |-> "null", entries |-> <<>>]

SleeperBodies ==
    { SleeperUsual, SleeperOthers, SleeperBlank, SleeperMoved, SleeperNoName,
      SleeperOdd, SleeperAnon, SleeperEmpty, SleeperScalar, SleeperNull }

\* What the upstreams serve: the roster bodies of team "1" (KC) and team "2"
\* (BAL) and the Sleeper body.  The well-formed rosters go with every
\* Sleeper body, each other pair of rosters with three.
Worlds ==
    { <<RosterKC, RosterBAL, s>> : s \in SleeperBodies }
    \cup { <<RosterNoPos, RosterBAL, s>> : s \in {SleeperUsual, SleeperOthers, SleeperScalar} }
    \cup { <<RosterNoName, RosterBAL, s>> : s \in {SleeperUsual, SleeperNoName, SleeperNull} }
    \cup { <<RosterOdd, RosterEmpty, s>> : s \in {SleeperUsual, SleeperOdd, SleeperEmpty} }
    \cup { <<RosterEmpty, RosterBAL, s>> : s \in {SleeperUsual, SleeperMoved, SleeperOthers} }
    \cup { <<RosterScalar, RosterEmpty, s>> : s \in {SleeperUsual, SleeperBlank, SleeperScalar} }

-----------------------------------------------------------------------------
(* The two caches.                                                         *)

RECURSIVE Flatten(_)
\* _get_team_roster, lines 115-122: athletes.extend(items) group by group.
Flatten(groups) ==
    IF groups = <<>> THEN <<>>
    ELSE (IF Head(groups).hasItems THEN Head(groups).items ELSE <<>>)
         \o Flatten(Tail(groups))

\* _get_team_roster, lines 108-123: the request and the decoding.  raised:
\* an exception reached the except clause before line 125.
RosterResponse(outcome, body) ==
    IF outcome # "ok" \/ body.shape # "dict"
    THEN [raised |-> TRUE, athletes |-> <<>>]
    ELSE [raised |-> FALSE, athletes |-> Flatten(body.groups)]

Uncached == [present |-> FALSE, athletes |-> <<>>, obj |-> 0]

\* A variant that stores an empty roster when the fetch fails.
RosterStore_CacheFailure(cache, team_id, resp, obj) ==
    [cache EXCEPT ![team_id] =
        [present |-> TRUE, athletes |-> resp.athletes, obj |-> obj]]

\* Mutant: the fetched roster is returned but never stored.
RosterStore_Forget(cache, team_id, resp, obj) == cache

\* Mutant: 'if athletes:' guards the store, so an empty roster is not cached.
RosterStore_SkipEmpty(cache, team_id, resp, obj) ==
    IF resp.raised \/ resp.athletes = <<>> THEN cache
    ELSE [cache EXCEPT ![team_id] =
              [present |-> TRUE, athletes |-> resp.athletes, obj |-> obj]]

\* _get_team_roster, line 125: the roster is stored under team_id.
RosterStore(cache, team_id, resp, obj) ==
    IF resp.raised THEN cache
    ELSE [cache EXCEPT ![team_id] =
              [present |-> TRUE, athletes |-> resp.athletes, obj |-> obj]]

\* What a read hands back: isNone is Python None.
RetNone == [isNone |-> TRUE, shape |-> "None", items |-> <<>>]
RetList(items) == [isNone |-> FALSE, shape |-> "list", items |-> items]

\* _get_team_roster, lines 130 and 133.
RosterReturn(resp) == IF resp.raised THEN RetNone ELSE RetList(resp.athletes)

PlayersNone == [shape |-> "None", entries |-> <<>>, obj |-> 0]

\* get_all_players, lines 18-33.  The body is assigned to the cache at line
\* 25, before len(players) at line 27 can raise (TypeError for null or for
\* a number).
PlayersResponse(outcome, body) ==
    IF outcome # "ok"
    THEN [assigned |-> FALSE, raised |-> TRUE, shape |-> "None", entries |-> <<>>]
    ELSE [assigned |-> TRUE,
          raised   |-> body.shape # "dict",
          shape    |-> IF body.shape = "null" THEN "None" ELSE body.shape,
          entries  |-> body.entries]

PlayersStore(cache, resp, obj) ==
    IF ~resp.assigned THEN cache
    ELSE [shape |-> resp.shape, entries |-> resp.entries,
          obj |-> IF resp.shape = "None" THEN 0 ELSE obj]

\* get_all_players, lines 29 and 33: the body, or {} from the except clause.
PlayersReturn(resp) ==
    IF resp.raised THEN [isNone |-> FALSE, shape |-> "dict", items |-> <<>>]
    ELSE [isNone |-> FALSE, shape |-> "dict", items |-> resp.entries]

\* get_all_players, lines 15-16: what a populated cache hands back.
PlayersCached(cache) == [isNone |-> FALSE, shape |-> cache.shape, items |-> cache.entries]

-----------------------------------------------------------------------------
(* Values of the variables a specification does not use.                   *)

NoVerdict == [done |-> FALSE, espn |-> FALSE, sleeper |-> FALSE]

\* Concurrent requests sharing the service instances (SpecCache).
NumTasks == 2
Tasks == 1..NumTasks

Keys == TeamIds \cup {"players"}

NoEvent == [op |-> "none", key |-> "", hit |-> FALSE, ok |-> FALSE,
            ret |-> RetNone, obj |-> 0]

NoHist == [k \in Keys |-> [has |-> FALSE, ret |-> RetNone, firstObj |-> 0]]

NoRecord == [kind |-> "unset"]
NoOut    == [op |-> "none", raised |-> FALSE, isNone |-> FALSE, query |-> <<>>,
             status |-> [status |-> "Healthy", part |-> ""],
             injured_teammates |-> <<>>, statsK |-> "none",
             reqs |-> <<>>, failed |-> {}]

MatchIdle == mq = <<>> /\ mc = <<>> /\ mres = NoVerdict

CacheIdle == /\ pc = [t \in Tasks |-> "idle"]
             /\ arg = [t \in Tasks |-> ""]
             /\ ev = NoEvent
             /\ hist = NoHist

AggIdle == player_data = NoRecord /\ out = NoOut

\* ESPNService.__init__ line 15 and SleeperService.__init__ line 11.
ServicesInit == /\ _team_rosters = [k \in TeamIds |-> Uncached]
                /\ _players_cache = PlayersNone

UpstreamFixed == UNCHANGED <<espnTeams, rosterBody, sleeperBody>>

-----------------------------------------------------------------------------
(* SpecMatch: the two matching expressions on every pair of short strings. *)

MatchInit ==
    /\ mq \in Strs /\ mc \in Strs /\ mres = NoVerdict
    /\ espnTeams = <<>> /\ rosterBody = [k \in TeamIds |-> RosterDict(<<>>)]
    /\ sleeperBody = SleeperEmpty
    /\ ServicesInit /\ CacheIdle /\ AggIdle

Match ==
    /\ ~mres.done
    /\ mres' = [done |-> TRUE,
                espn |-> EspnNameMatches(mq, mc),
                sleeper |-> SleeperNameMatches(mq, mc)]
    /\ UNCHANGED <<mq, mc, _team_rosters, _players_cache, pc, arg, ev, hist,
                   player_data, out>>
    /\ UpstreamFixed

MatchNext == Match

SpecMatch == MatchInit /\ [][MatchNext]_vars

-----------------------------------------------------------------------------
(* SpecCache: tasks suspended at 'await self.client.get(url)'.             *)

\* The bodies served for team "1" and by Sleeper: well-formed, empty, not
\* of the expected type, and a Sleeper body that is null.
CacheWorlds ==
    { <<RosterKC, SleeperUsual>>, <<RosterEmpty, SleeperEmpty>>,
      <<RosterScalar, SleeperScalar>>, <<RosterKC, SleeperNull>> }

CacheInit ==
    /\ MatchIdle /\ AggIdle /\ ServicesInit /\ CacheIdle
    /\ espnTeams = <<TeamKC, TeamBAL>>
    /\ \E w \in CacheWorlds :
          /\ rosterBody = [k \in TeamIds |-> IF k = "1" THEN w[1] ELSE RosterBAL]
          /\ sleeperBody = w[2]

Returned(t, op, key, hit, ok, ret, obj) ==
    /\ ev' = [op |-> op, key |-> key, hit |-> hit, ok |-> ok,
              ret |-> ret, obj |-> obj]
    /\ hist' = [hist EXCEPT ![key] =
                  [has |-> @.has \/ ok,
                   ret |-> IF ok THEN ret ELSE @.ret,
                   firstObj |-> IF @.firstObj = 0 /\ ~hit THEN obj ELSE @.firstObj]]

\* _get_team_roster up to its first suspension: lines 105-110.
RosterStart(t, team_id) ==
    /\ pc[t] = "idle"
    /\ IF _team_rosters[team_id].present
       THEN /\ Returned(t, "roster", team_id, TRUE, TRUE,
                        RetList(_team_rosters[team_id].athletes),
                        _team_rosters[team_id].obj)
            /\ UNCHANGED <<pc, arg>>
       ELSE /\ pc' = [pc EXCEPT ![t] = "roster"]
            /\ arg' = [arg EXCEPT ![t] = team_id]
            /\ UNCHANGED <<ev, hist>>
    /\ UNCHANGED <<mq, mc, mres, _team_rosters, _players_cache, player_data, out>>
    /\ UpstreamFixed

\* _get_team_roster from the response on: lines 110-133.
RosterDone(t, outcome) ==
    /\ pc[t] = "roster"
    /\ LET resp == RosterResponse(outcome, rosterBody[arg[t]])
       IN  /\ _team_rosters' = RosterStore(_team_rosters, arg[t], resp, t)
           /\ Returned(t, "roster", arg[t], FALSE, ~resp.raised, RosterReturn(resp),
                       IF resp.raised THEN 0 ELSE t)
    /\ pc' = [pc EXCEPT ![t] = "idle"]
    /\ arg' = [arg EXCEPT ![t] = ""]
    /\ UNCHANGED <<mq, mc, mres, _players_cache, player_data, out>>
    /\ UpstreamFixed

\* get_all_players up to its first suspension: lines 15-21.
PlayersStart(t) ==
    /\ pc[t] = "idle"
    /\ IF _players_cache.shape # "None"
       THEN /\ Returned(t, "players", "players", TRUE, TRUE,
                        PlayersCached(_players_cache), _players_cache.obj)
            /\ UNCHANGED pc
       ELSE /\ pc' = [pc EXCEPT ![t] = "players"]
            /\ UNCHANGED <<ev, hist>>
    /\ UNCHANGED <<mq, mc, mres, _team_rosters, _players_cache, arg, player_data, out>>
    /\ UpstreamFixed

\* get_all_players from the response on: lines 21-33.
PlayersDone(t, outcome) ==
    /\ pc[t] = "players"
    /\ LET resp == PlayersResponse(outcome, sleeperBody)
       IN  /\ _players_cache' = PlayersStore(_players_cache, resp, t)
           /\ Returned(t, "players", "players", FALSE, ~resp.raised, PlayersReturn(resp),
                       IF resp.assigned /\ resp.shape # "None" THEN t ELSE 0)
    /\ pc' = [pc EXCEPT ![t] = "idle"]
    /\ UNCHANGED <<mq, mc, mres, _team_rosters, arg, player_data, out>>
    /\ UpstreamFixed

CacheNext ==
    \E t \in Tasks :
        \/ \E team_id \in TeamIds : RosterStart(t, team_id)
        \/ \E outcome \in Outcomes : RosterDone(t, outcome)
        \/ PlayersStart(t)
        \/ \E outcome \in Outcomes : PlayersDone(t, outcome)

SpecCache == CacheInit /\ [][CacheNext]_vars

-----------------------------------------------------------------------------
(* ESPNService (Provider A), as functions of the caches and of the outcome *)
(* of each request the call makes.                                         *)

Endpoints == {"teams", "players", "stats"} \cup TeamIds

\* How each endpoint fails when it does: the listing by a network error or
\* timeout, the rosters by a non-2xx status or a body that is not JSON, the
\* player map by a non-2xx status, the statistics by a network error.
KindOf(e) == CASE e = "teams" -> "neterr"
               [] e = "1" -> "http"
               [] e = "2" -> "badjson"
               [] e = "players" -> "http"
               [] OTHER -> "neterr"

\* The outcome of each endpoint's request during one call.
Oc(failing) == [e \in Endpoints |-> IF e \in failing THEN KindOf(e) ELSE "ok"]

\* _get_all_teams, lines 74-99: never cached, [] on any failure.
GetAllTeams(outcome) == IF outcome # "ok" THEN <<>> ELSE espnTeams

\* _get_team_roster, lines 101-133, without a suspension in between.
GetTeamRoster(cache, team_id, outcome) ==
    IF cache[team_id].present
    THEN [ret |-> RetList(cache[team_id].athletes), cache |-> cache, requested |-> FALSE]
    ELSE LET resp == RosterResponse(outcome, rosterBody[team_id])
         IN  [ret |-> RosterReturn(resp),
              cache |-> RosterStore(cache, team_id, resp, 0),
              requested |-> TRUE]

\* str.title(): the first letter of every word in upper case, the other
\* letters in lower case.
UpperChar(c) == CASE c = "a" -> "A"
                  [] c = "b" -> "B"
                  [] c = "c" -> "C"
                  [] OTHER -> c

RECURSIVE TitleFrom(_, _)
TitleFrom(s, inWord) ==
    IF s = <<>> THEN <<>>
    ELSE <<IF inWord THEN LowerChar(Head(s)) ELSE UpperChar(Head(s))>>
         \o TitleFrom(Tail(s), Head(s) # " ")

TitleCase(s) == TitleFrom(s, FALSE)

\* A variant that title-cases the name of the fallback player.
CreateFallbackPlayer_Title(player_name) ==
    [isDict |-> TRUE, id |-> "fallback", nameK |-> "str",
     displayName |-> TitleCase(player_name),
     posK |-> "obj", abbr |-> "PLAYER",
     team |-> [set |-> TRUE, id |-> "0", abbreviation |-> "NFL", displayName |-> ""]]

\* A variant whose fallback position is the aggregate's own default "N/A".
CreateFallbackPlayer_NA(player_name) ==
    [isDict |-> TRUE, id |-> "fallback", nameK |-> "str", displayName |-> player_name,
     posK |-> "obj", abbr |-> "N/A",
     team |-> [set |-> TRUE, id |-> "0", abbreviation |-> "NFL", displayName |-> ""]]

\* _create_fallback_player, lines 135-143 ('headshot': None is left out).
CreateFallbackPlayer(player_name) ==
    [isDict |-> TRUE, id |-> "fallback", nameK |-> "str", displayName |-> player_name,
     posK |-> "obj", abbr |-> "PLAYER",
     team |-> [set |-> TRUE, id |-> "0", abbreviation |-> "NFL", displayName |-> ""]]

\* A variant that keeps the last roster item that matches, not the first.
ScanRoster_Last(roster, j, player_name) ==
    LET hits == { i \in j..Len(roster) :
                    /\ roster[i].isDict /\ roster[i].nameK = "str"
                    /\ EspnNameMatches(player_name, roster[i].displayName) }
    IN  IF hits = {} THEN [kind |-> "none", idx |-> 0]
        ELSE [kind |-> "found", idx |-> CHOOSE i \in hits : \A h \in hits : h <= i]

RECURSIVE ScanRoster(_, _, _)
\* search_player, lines 42-54, from item j on: the index of the first item
\* that matches, "none", or "raised" (None.lower() at line 47).
ScanRoster(roster, j, player_name) ==
    IF j > Len(roster) THEN [kind |-> "none", idx |-> 0]
    ELSE LET athlete == roster[j]
         IN  IF ~athlete.isDict THEN ScanRoster(roster, j + 1, player_name)
             ELSE IF athlete.nameK = "null" THEN [kind |-> "raised", idx |-> j]
             ELSE IF athlete.nameK = "missing" THEN ScanRoster(roster, j + 1, player_name)
             ELSE IF EspnNameMatches(player_name, athlete.displayName)
                  THEN [kind |-> "found", idx |-> j]
                  ELSE ScanRoster(roster, j + 1, player_name)

\* search_player, lines 58-62: athlete['team'] = {...}.
TeamInfo(team) == [set |-> TRUE, id |-> team.id, abbreviation |-> team.abbreviation,
                   displayName |-> team.displayName]

RECURSIVE ScanTeams(_, _, _, _, _)
\* search_player, lines 33-64, from team i on.  The matched athlete is an
\* item of the cached roster, so setting its 'team' key changes the cache.
ScanTeams(teams, i, player_name, cache, oc) ==
    IF i > Len(teams)
    THEN [kind |-> "none", player |-> NotADict, cache |-> cache, reqs |-> <<>>]
    ELSE LET Visit(team, r) ==
               LET sent == IF r.requested THEN <<team.id>> ELSE <<>>
                   s    == IF r.ret.isNone \/ r.ret.items = <<>>
                           THEN [kind |-> "none", idx |-> 0]
                           ELSE ScanRoster(r.ret.items, 1, player_name)
               IN  CASE s.kind = "found" ->
                          [kind   |-> "found",
                           player |-> [r.ret.items[s.idx] EXCEPT !.team = TeamInfo(team)],
                           cache  |-> [r.cache EXCEPT
                                         ![team.id].athletes[s.idx].team = TeamInfo(team)],
                           reqs   |-> sent]
                     [] s.kind = "raised" ->
                          [kind |-> "raised", player |-> NotADict, cache |-> r.cache,
                           reqs |-> sent]
                     [] OTHER ->
                          LET rest == ScanTeams(teams, i + 1, player_name, r.cache, oc)
                          IN  [rest EXCEPT !.reqs = sent \o @]
         IN  Visit(teams[i], GetTeamRoster(cache, teams[i].id, oc[teams[i].id]))

\* search_player, lines 17-72.  Every path returns a dict: the matched
\* athlete or the fallback player; raised is what leaves the method.
search_player(player_name, cache, oc) ==
    LET teams == GetAllTeams(oc["teams"])
    IN  IF teams = <<>>
        THEN [raised |-> FALSE, isNone |-> FALSE,
              player |-> CreateFallbackPlayer(player_name), cache |-> cache,
              reqs |-> <<"teams">>]
        ELSE LET s == ScanTeams(teams, 1, player_name, cache, oc)
             IN  [raised |-> FALSE, isNone |-> FALSE,
                  player |-> IF s.kind = "found" THEN s.player
                             ELSE CreateFallbackPlayer(player_name),
                  cache  |-> s.cache,
                  reqs   |-> <<"teams">> \o s.reqs]

\* A variant without the test for the fallback id at line 148.
espn_get_player_stats_AlwaysFetch(player_id, outcome) ==
    IF outcome # "ok" THEN [raised |-> FALSE, statsK |-> "mock", requested |-> TRUE]
    ELSE [raised |-> FALSE, statsK |-> "real", requested |-> TRUE]

\* ESPNService.get_player_stats, lines 145-164: "mock" is _create_mock_stats().
espn_get_player_stats(player_id, outcome) ==
    IF player_id = "fallback" THEN [raised |-> FALSE, statsK |-> "mock", requested |-> FALSE]
    ELSE IF outcome # "ok" THEN [raised |-> FALSE, statsK |-> "mock", requested |-> TRUE]
    ELSE [raised |-> FALSE, statsK |-> "real", requested |-> TRUE]

\* ESPNService defines no get_team_context: the attribute lookup at
\* hybrid_service.py line 115 raises AttributeError.
espn_get_team_context(espn_id, position, team_id) ==
    [raised |-> TRUE, position_group |-> ""]

-----------------------------------------------------------------------------
(* SleeperService (Provider B).                                            *)

\* str.upper() on the closed vocabulary of abbreviations and status words.
UpperS(s) == CASE s = "kc" -> "KC"
               [] s = "bal" -> "BAL"
               [] s = "qb" -> "QB"
               [] s = "rb" -> "RB"
               [] s = "fb" -> "FB"
               [] s = "wr" -> "WR"
               [] s = "te" -> "TE"
               [] s = "k" -> "K"
               [] s = "pk" -> "PK"
               [] s = "n/a" -> "N/A"
               [] s = "Qb" -> "QB"
               [] s = "fB" -> "FB"
               [] s = "Pk" -> "PK"
               [] s = "lb" -> "LB"
               [] s = "Lb" -> "LB"
               [] s = "Out" -> "OUT"
               [] s = "Questionable" -> "QUESTIONABLE"
               [] s = "Doubtful" -> "DOUBTFUL"
               [] OTHER -> s

\* _matches_position_group, lines 117-133.
MatchesPositionGroup(position_raw, group_raw) ==
    LET position == UpperS(position_raw)
        group    == UpperS(group_raw)
    IN  CASE group = "QB" -> position = "QB"
          [] group = "RB" -> position \in {"RB", "FB"}
          [] group = "WR" -> position = "WR"
          [] group = "TE" -> position = "TE"
          [] group = "K"  -> position \in {"K", "PK"}
          [] OTHER -> position = group

\* A variant that upper-cases the position and absorbs nothing.
GetPositionGroup_NoAbsorb(position_raw) == UpperS(position_raw)

\* _get_position_group, lines 135-150.
GetPositionGroup(position_raw) ==
    LET position == UpperS(position_raw)
    IN  CASE position = "QB" -> "QB"
          [] position \in {"RB", "FB"} -> "RB"
          [] position = "WR" -> "WR"
          [] position = "TE" -> "TE"
          [] position \in {"K", "PK"} -> "K"
          [] OTHER -> position

\* The positions enumerated by SpecGroup: the five groups, the two absorbed
\* positions, a position outside the table, the aggregate's default and the
\* empty string, in several letter cases.
Positions ==
    { "QB", "qb", "Qb", "RB", "rb", "FB", "fb", "fB", "WR", "wr", "TE", "te",
      "K", "k", "PK", "pk", "Pk", "LB", "lb", "Lb", "N/A", "n/a", "" }

\* SpecGroup: the two position-group functions on every pair of positions.

GroupInit ==
    /\ mq \in Positions /\ mc \in Positions /\ mres = NoVerdict
    /\ espnTeams = <<>> /\ rosterBody = [k \in TeamIds |-> RosterDict(<<>>)]
    /\ sleeperBody = SleeperEmpty
    /\ ServicesInit /\ CacheIdle /\ AggIdle

\* group / other: _get_position_group of the two positions; own, cross and
\* back: _matches_position_group of a position and a derived group.
PositionGroup ==
    /\ ~mres.done
    /\ mres' = [done  |-> TRUE,
                group |-> GetPositionGroup(mq),
                other |-> GetPositionGroup(mc),
                own   |-> MatchesPositionGroup(mq, GetPositionGroup(mq)),
                cross |-> MatchesPositionGroup(mq, GetPositionGroup(mc)),
                back  |-> MatchesPositionGroup(mc, GetPositionGroup(mq))]
    /\ UNCHANGED <<mq, mc, _team_rosters, _players_cache, pc, arg, ev, hist,
                   player_data, out>>
    /\ UpstreamFixed

GroupNext == PositionGroup

SpecGroup == GroupInit /\ [][GroupNext]_vars

\* get_all_players, lines 13-33, without a suspension in between.
get_all_players(cache, outcome) ==
    IF cache.shape # "None"
    THEN [ret |-> PlayersCached(cache), cache |-> cache, requested |-> FALSE]
    ELSE LET resp == PlayersResponse(outcome, sleeperBody)
         IN  [ret |-> PlayersReturn(resp),
              cache |-> PlayersStore(cache, resp, 0),
              requested |-> TRUE]

RECURSIVE ScanPlayers(_, _, _)
\* get_player_by_name, lines 42-47, from entry j on.  "raised": .get on an
\* entry that is no dict, or .lower() on a null full_name (line 43).
ScanPlayers(entries, j, name) ==
    IF j > Len(entries) THEN [kind |-> "none", idx |-> 0]
    ELSE LET player == entries[j]
         IN  IF ~player.isDict \/ player.nameK = "null"
             THEN [kind |-> "raised", idx |-> j]
             ELSE IF SleeperNameMatches(name, IF player.nameK = "missing" THEN <<>>
                                              ELSE player.full_name)
                  THEN [kind |-> "found", idx |-> j]
                  ELSE ScanPlayers(entries, j + 1, name)

\* get_player_by_name, lines 35-53.  A body that is no dict has no .items()
\* (line 42 raises).  Line 46 writes 'sleeper_id' into the cached entry.
get_player_by_name(name, cache, outcome) ==
    LET g == get_all_players(cache, outcome)
        s == IF g.ret.shape # "dict" THEN [kind |-> "raised", idx |-> 0]
             ELSE ScanPlayers(g.ret.items, 1, name)
    IN  IF s.kind = "found"
        THEN [raised |-> FALSE, found |-> TRUE,
              player |-> [g.ret.items[s.idx] EXCEPT !.sleeper_id = g.ret.items[s.idx].sid],
              cache  |-> [g.cache EXCEPT !.entries[s.idx].sleeper_id =
                                            g.cache.entries[s.idx].sid],
              reqs   |-> IF g.requested THEN <<"players">> ELSE <<>>]
        ELSE [raised |-> FALSE, found |-> FALSE, player |-> SleeperNotADict,
              cache |-> g.cache,
              reqs  |-> IF g.requested THEN <<"players">> ELSE <<>>]

Unknown == <<"U", "n", "k", "n", "o", "w", "n">>

RECURSIVE CollectInjuries(_, _, _, _)
\* get_team_injuries, lines 75-106, from entry j on.
CollectInjuries(entries, j, team_abbr_upper, position_group_upper) ==
    IF j > Len(entries) THEN <<>>
    ELSE LET player == entries[j]
             rest   == CollectInjuries(entries, j + 1, team_abbr_upper,
                                       position_group_upper)
         IN  IF ~player.isDict THEN rest
             ELSE IF player.team = "" \/ UpperS(player.team) # team_abbr_upper THEN rest
             ELSE IF \/ player.position = ""
                     \/ ~MatchesPositionGroup(player.position, position_group_upper)
                  THEN rest
             ELSE IF player.injury_status \in {"", " "} THEN rest
             ELSE <<[nameK |-> IF player.nameK = "null" THEN "null" ELSE "str",
                     name  |-> IF player.nameK = "missing" THEN Unknown
                               ELSE player.full_name,
                     position |-> player.position,
                     injury_status |-> [status |-> UpperS(player.injury_status),
                                        part |-> player.injury_body_part]]>> \o rest

\* get_team_injuries, lines 55-115.
get_team_injuries(team_abbr, position_group, cache, outcome) ==
    IF team_abbr = "" \/ UpperS(team_abbr) = "N/A" \/ position_group = ""
    THEN [raised |-> FALSE, injuries |-> <<>>, cache |-> cache, requested |-> FALSE]
    ELSE LET g == get_all_players(cache, outcome)
         IN  [raised |-> FALSE,
              injuries |-> IF g.ret.shape # "dict" \/ g.ret.items = <<>> THEN <<>>
                           ELSE CollectInjuries(g.ret.items, 1, UpperS(team_abbr),
                                                UpperS(position_group)),
              cache |-> g.cache,
              requested |-> g.requested]

-----------------------------------------------------------------------------
(* HybridNFLService.                                                       *)

Healthy == [status |-> "Healthy", part |-> ""]

\* A variant in which the team and position of the Sleeper player, when one
\* is found, replace those taken from ESPN.
get_complete_player_data_SleeperWins(player_name, rosters, players, oc) ==
    LET Build(e, sl) ==
          IF e.player.posK = "null"
          THEN [raised |-> TRUE, isNone |-> FALSE, record |-> NoRecord,
                rosters |-> e.cache, players |-> players, reqs |-> e.reqs]
          ELSE LET base == [name      |-> e.player.displayName,
                            position  |-> IF e.player.posK = "missing" THEN "N/A"
                                          ELSE e.player.abbr,
                            team      |-> e.player.team.abbreviation,
                            espn_id   |-> e.player.id,
                            espn_data |-> e.player]
               IN  [raised  |-> FALSE, isNone |-> FALSE,
                    record  |-> IF sl.found
                                THEN [base EXCEPT !.position = sl.player.position,
                                                  !.team = sl.player.team]
                                     @@ [sleeper_id   |-> sl.player.sleeper_id,
                                         sleeper_data |-> sl.player]
                                ELSE base,
                    rosters |-> e.cache, players |-> sl.cache,
                    reqs    |-> e.reqs \o sl.reqs]
    IN  Build(search_player(player_name, rosters, oc),
              get_player_by_name(player_name, players, oc["players"]))

\* A variant that gives up (returns None) when Sleeper has nothing.
get_complete_player_data_NeedsSleeper(player_name, rosters, players, oc) ==
    LET e  == search_player(player_name, rosters, oc)
        sl == get_player_by_name(player_name, players, oc["players"])
    IN  IF e.player.posK = "null"
        THEN [raised |-> TRUE, isNone |-> FALSE, record |-> NoRecord,
              rosters |-> e.cache, players |-> players, reqs |-> e.reqs]
        ELSE IF ~sl.found
        THEN [raised |-> FALSE, isNone |-> TRUE, record |-> NoRecord,
              rosters |-> e.cache, players |-> sl.cache, reqs |-> e.reqs \o sl.reqs]
        ELSE [raised  |-> FALSE, isNone |-> FALSE,
              record  |-> [name      |-> e.player.displayName,
                           position  |-> IF e.player.posK = "missing" THEN "N/A"
                                         ELSE e.player.abbr,
                           team      |-> e.player.team.abbreviation,
                           espn_id   |-> e.player.id,
                           espn_data |-> e.player,
                           sleeper_id   |-> sl.player.sleeper_id,
                           sleeper_data |-> sl.player],
              rosters |-> e.cache, players |-> sl.cache, reqs |-> e.reqs \o sl.reqs]

\* get_complete_player_data, lines 18-55.  Line 39 calls .get on the value
\* of 'position': AttributeError when that value is null; nothing catches it.
\* e is what search_player returned (line 30) and sl what get_player_by_name
\* returns (line 46), which is called only if line 39 has not raised.
get_complete_player_data(player_name, rosters, players, oc) ==
    LET Build(e, sl) ==
          IF e.isNone
          THEN [raised |-> FALSE, isNone |-> TRUE, record |-> NoRecord,
                rosters |-> e.cache, players |-> players, reqs |-> e.reqs]
          ELSE IF e.player.posK = "null"
          THEN [raised |-> TRUE, isNone |-> FALSE, record |-> NoRecord,
                rosters |-> e.cache, players |-> players, reqs |-> e.reqs]
          ELSE LET base == [name      |-> e.player.displayName,
                            position  |-> IF e.player.posK = "missing" THEN "N/A"
                                          ELSE e.player.abbr,
                            team      |-> e.player.team.abbreviation,
                            espn_id   |-> e.player.id,
                            espn_data |-> e.player]
               IN  [raised  |-> FALSE, isNone |-> FALSE,
                    record  |-> IF sl.found
                                THEN base @@ [sleeper_id   |-> sl.player.sleeper_id,
                                              sleeper_data |-> sl.player]
                                ELSE base,
                    rosters |-> e.cache, players |-> sl.cache,
                    reqs    |-> e.reqs \o sl.reqs]
    IN  Build(search_player(player_name, rosters, oc),
              get_player_by_name(player_name, players, oc["players"]))

\* A variant that sends the statistics request a second time when the first
\* one failed.
get_player_stats_Retry(pd, outcome) ==
    IF "espn_id" \notin DOMAIN pd
    THEN [raised |-> FALSE, statsK |-> "none", reqs |-> <<>>]
    ELSE LET stats == espn_get_player_stats(pd.espn_id, outcome)
         IN  [raised |-> FALSE, statsK |-> stats.statsK,
              reqs |-> IF ~stats.requested THEN <<>>
                       ELSE IF outcome = "ok" THEN <<"stats">>
                       ELSE <<"stats", "stats">>]

\* HybridNFLService.get_player_stats, lines 57-71.
get_player_stats(pd, outcome) ==
    IF "espn_id" \notin DOMAIN pd
    THEN [raised |-> FALSE, statsK |-> "none", reqs |-> <<>>]
    ELSE LET stats == espn_get_player_stats(pd.espn_id, outcome)
         IN  [raised |-> FALSE, statsK |-> stats.statsK,
              reqs |-> IF stats.requested THEN <<"stats">> ELSE <<>>]

\* A variant that takes the first injured player of the position group,
\* whoever it is.
FindInjury_AnyName(injuries, j, player_name) ==
    IF j > Len(injuries) THEN [kind |-> "none", idx |-> 0]
    ELSE IF injuries[j].nameK = "null" THEN [kind |-> "raised", idx |-> j]
    ELSE [kind |-> "found", idx |-> j]

RECURSIVE FindInjury(_, _, _)
\* get_player_injury, lines 86-90, from entry j on.  "raised": .lower() on a
\* null name.
FindInjury(injuries, j, player_name) ==
    IF j > Len(injuries) THEN [kind |-> "none", idx |-> 0]
    ELSE IF injuries[j].nameK = "null" THEN [kind |-> "raised", idx |-> j]
    ELSE IF Lower(injuries[j].name) = Lower(player_name)
         THEN [kind |-> "found", idx |-> j]
         ELSE FindInjury(injuries, j + 1, player_name)

\* get_player_injury, lines 73-95.
get_player_injury(pd, players, outcome) ==
    LET position_group == GetPositionGroup(pd.position)
        inj == get_team_injuries(pd.team, position_group, players, outcome)
        f   == FindInjury(inj.injuries, 1, pd.name)
    IN  [raised |-> FALSE,
         status |-> IF f.kind = "found" THEN inj.injuries[f.idx].injury_status
                    ELSE Healthy,
         players |-> inj.cache,
         reqs |-> IF inj.requested THEN <<"players">> ELSE <<>>]

\* A variant that asks Sleeper for the position group of the record and
\* returns every injured player of it, the subject included.
get_team_context_Unfiltered(pd, players, outcome) ==
    LET Give(all) ==
          [raised |-> FALSE, context |-> "espn",
           injured_teammates |-> all.injuries,
           players |-> all.cache,
           reqs |-> IF all.requested THEN <<"players">> ELSE <<>>]
    IN  Give(get_team_injuries(pd.team, GetPositionGroup(pd.position), players, outcome))

\* get_team_context, lines 97-141.
get_team_context(pd, players, outcome) ==
    LET team_id == IF pd.espn_data.team.set THEN pd.espn_data.team.id ELSE ""
        none    == [raised |-> FALSE, context |-> "No team context available",
                    injured_teammates |-> <<>>, players |-> players, reqs |-> <<>>]
    IN  IF team_id = "" \/ pd.espn_id = "" THEN none
        ELSE LET espn_context == espn_get_team_context(pd.espn_id, pd.position, team_id)
             IN  IF espn_context.raised THEN none
                 ELSE IF espn_context.position_group = ""
                 THEN [none EXCEPT !.context = "espn"]
                 ELSE LET all == get_team_injuries(pd.team, espn_context.position_group,
                                                   players, outcome)
                      IN  IF \E j \in DOMAIN all.injuries : all.injuries[j].nameK = "null"
                          THEN [none EXCEPT
                                  !.players = all.cache,
                                  !.reqs = IF all.requested THEN <<"players">> ELSE <<>>]
                          ELSE [raised |-> FALSE, context |-> "espn",
                                injured_teammates |->
                                    SelectSeq(all.injuries,
                                              LAMBDA i : Lower(i.name) # Lower(pd.name)),
                                players |-> all.cache,
                                reqs |-> IF all.requested THEN <<"players">> ELSE <<>>]

-----------------------------------------------------------------------------
(* Spec: handler calls, one after the other, on one HybridNFLService.      *)

Queries == { <<" ", "A", "b", " ">>, <<"b">>, <<"a", "b", "c">>, <<"c", "c">>, <<" ">> }

Init ==
    /\ MatchIdle /\ CacheIdle /\ AggIdle /\ ServicesInit
    /\ espnTeams = <<TeamKC, TeamBAL>>
    /\ \E w \in Worlds :
          /\ rosterBody = [k \in TeamIds |-> IF k = "1" THEN w[1] ELSE w[2]]
          /\ sleeperBody = w[3]

\* What the caller sees of a call, the requests the call sent (in order) and
\* the endpoints whose request has failed since the record was built.
Outcome(op, raised, isNone, query, status, teammates, statsK, reqs, failed) ==
    [op |-> op, raised |-> raised, isNone |-> isNone, query |-> query,
     status |-> status, injured_teammates |-> teammates, statsK |-> statsK,
     reqs |-> reqs, failed |-> failed]

\* The endpoints among those requested whose request failed.
Failed(reqs, oc) == { reqs[i] : i \in { j \in DOMAIN reqs : oc[reqs[j]] # "ok" } }

\* An aggregation starts with get_complete_player_data; the other three
\* methods are then called on its result (test_hybrid.py lines 18-38).
CompletePlayerData(player_name, failing) ==
    \E r \in {get_complete_player_data(player_name, _team_rosters, _players_cache,
                                        Oc(failing))} :
        /\ out.op = "none"
        /\ player_data' = r.record
        /\ _team_rosters' = r.rosters
        /\ _players_cache' = r.players
        /\ out' = Outcome("complete", r.raised, r.isNone, player_name, Healthy, <<>>,
                          "none", r.reqs, Failed(r.reqs, Oc(failing)))
        /\ UNCHANGED <<mq, mc, mres, pc, arg, ev, hist>>
        /\ UpstreamFixed

PlayerStats(outcome) ==
    /\ player_data # NoRecord
    /\ \E r \in {get_player_stats(player_data, outcome)} :
           out' = Outcome("stats", r.raised, FALSE, out.query, Healthy, <<>>, r.statsK,
                          r.reqs,
                          out.failed \cup Failed(r.reqs, [e \in Endpoints |-> outcome]))
    /\ UNCHANGED <<mq, mc, mres, pc, arg, ev, hist, player_data, _team_rosters,
                   _players_cache>>
    /\ UpstreamFixed

PlayerInjury(outcome) ==
    /\ player_data # NoRecord
    /\ \E r \in {get_player_injury(player_data, _players_cache, outcome)} :
           /\ out' = Outcome("injury", r.raised, FALSE, out.query, r.status, <<>>, "none",
                              r.reqs,
                              out.failed \cup Failed(r.reqs, [e \in Endpoints |-> outcome]))
           /\ _players_cache' = r.players
    /\ UNCHANGED <<mq, mc, mres, pc, arg, ev, hist, player_data, _team_rosters>>
    /\ UpstreamFixed

TeamContext(outcome) ==
    /\ player_data # NoRecord
    /\ \E r \in {get_team_context(player_data, _players_cache, outcome)} :
           /\ out' = Outcome("context", r.raised, FALSE, out.query, Healthy,
                             r.injured_teammates, "none", r.reqs,
                             out.failed \cup Failed(r.reqs, [e \in Endpoints |-> outcome]))
           /\ _players_cache' = r.players
    /\ UNCHANGED <<mq, mc, mres, pc, arg, ev, hist, player_data, _team_rosters>>
    /\ UpstreamFixed

\* The caller is done with the record (test_hybrid.py lines 46-47: the
\* local 'player' is used no more); the services keep their caches.
AggregationDone ==
    /\ out.op # "none"
    /\ player_data' = NoRecord
    /\ out' = NoOut
    /\ UNCHANGED <<mq, mc, mres, pc, arg, ev, hist, _team_rosters, _players_cache>>
    /\ UpstreamFixed

\* The failure patterns that can differ in effect: a request fails only if
\* it can be sent (the team listing is always requested, a roster only when
\* the listing arrived and the roster is not cached, the player map only while
\* it is not cached).
FailurePatterns ==
    { f \in SUBSET (Endpoints \ {"stats"}) :
        /\ \A k \in TeamIds : k \in f => ("teams" \notin f /\ ~_team_rosters[k].present)
        /\ "players" \in f => _players_cache.shape = "None" }

SleeperOutcomes == IF _players_cache.shape = "None" THEN Outcomes ELSE {"ok"}

Next ==
    \/ \E player_name \in Queries, failing \in FailurePatterns :
          CompletePlayerData(player_name, failing)
    \/ \E outcome \in Outcomes : PlayerStats(outcome)
    \/ \E outcome \in SleeperOutcomes : PlayerInjury(outcome)
    \/ \E outcome \in SleeperOutcomes : TeamContext(outcome)
    \/ AggregationDone

Spec == Init /\ [][Next]_vars

-----------------------------------------------------------------------------
(* Claims about the caches (SpecCache).                                    *)

ReadStart(t, k) == IF k = "players" THEN PlayersStart(t) ELSE RosterStart(t, k)

\* C4: once a read of a key has succeeded, a read of that key that starts
\* afterwards (the upstream body being unchanged) puts no request in flight
\* and returns a result structurally identical to the earlier one.
C4_CacheIdempotent ==
    [][\A t \in Tasks, k \in Keys :
          (hist[k].has /\ pc[t] = "idle" /\ ReadStart(t, k))
              => /\ pc'[t] = "idle"
                 /\ ev'.key = k /\ ev'.hit
                 /\ ev'.ret = hist[k].ret
                 /\ _team_rosters' = _team_rosters
                 /\ _players_cache' = _players_cache]_vars

\* A cache hit on a non-empty roster and, for the same run, a populated
\* Sleeper cache.
C4_Witness ==
    /\ ev.hit /\ ev.op = "roster" /\ ev.ret.items # <<>>
    /\ _players_cache.shape = "dict" /\ hist["players"].has

\* C5 (as claimed): a read whose fetch fails, whatever the reason, leaves
\* the cache as it was, so that the key stays absent and is fetched again.
C5_FailedFetchStoresNothing ==
    [][\A t \in Tasks, o \in Outcomes :
          /\ (RosterDone(t, o) /\ RosterResponse(o, rosterBody[arg[t]]).raised)
                => _team_rosters' = _team_rosters
          /\ (PlayersDone(t, o) /\ PlayersResponse(o, sleeperBody).raised)
                => _players_cache' = _players_cache]_vars

\* C6: a fetch that succeeds with an empty dataset populates the key with
\* the empty value, which differs from the uncached state; a read of a key
\* populated with the empty value returns it and puts no request in flight.
C6_EmptyIsCached ==
    [][\A t \in Tasks :
          /\ \A o \in Outcomes :
               /\ (/\ pc[t] = "roster"
                   /\ ~RosterResponse(o, rosterBody[arg[t]]).raised
                   /\ RosterResponse(o, rosterBody[arg[t]]).athletes = <<>>
                   /\ RosterDone(t, o))
                     => /\ _team_rosters'[arg[t]].present
                        /\ _team_rosters'[arg[t]].athletes = <<>>
                        /\ _team_rosters'[arg[t]] # Uncached
               /\ (/\ pc[t] = "players"
                   /\ ~PlayersResponse(o, sleeperBody).raised
                   /\ sleeperBody.entries = <<>>
                   /\ PlayersDone(t, o))
                     => /\ _players_cache'.shape = "dict"
                        /\ _players_cache'.entries = <<>>
                        /\ _players_cache' # PlayersNone
          /\ \A k \in TeamIds :
               (/\ _team_rosters[k].present /\ _team_rosters[k].athletes = <<>>
                /\ RosterStart(t, k))
                  => pc' = pc /\ ev'.hit /\ ev'.ret = RetList(<<>>)
          /\ (/\ _players_cache.shape = "dict" /\ _players_cache.entries = <<>>
              /\ PlayersStart(t))
                  => pc' = pc /\ ev'.hit /\ ev'.ret.items = <<>>]_vars

\* An empty roster was fetched, stored and then served from the cache.
C6_Witness ==
    /\ ev.op = "roster" /\ ev.hit /\ ev.ret = RetList(<<>>)
    /\ _team_rosters[ev.key].present

\* C7 (as claimed): a read served from a populated key returns the very
\* object that was stored first under that key.
C7_FirstStoredIsKept ==
    (ev.op # "none" /\ ev.hit) => ev.obj = hist[ev.key].firstObj

-----------------------------------------------------------------------------
(* Claims about name matching (SpecMatch).                                 *)

\* Bidirectional containment over strings trimmed and lower-cased on both
\* sides.
TrimmedContainment(query, candidate) ==
    LET q == Strip(Lower(query))
        c == Strip(Lower(candidate))
    IN  IsSubstr(q, c) \/ IsSubstr(c, q)

\* C10 (as claimed): for a candidate name that is not blank, each provider's
\* test gives the verdict of bidirectional containment over the trimmed,
\* lower-cased query and the trimmed, lower-cased candidate name.
C10_TrimmedBothSides ==
    (mres.done /\ Strip(Lower(mc)) # <<>>)
        => /\ mres.espn = TrimmedContainment(mq, mc)
           /\ mres.sleeper = TrimmedContainment(mq, mc)

-----------------------------------------------------------------------------
(* Claims about aggregation (Spec).                                        *)

\* The athletes Provider A serves, over all teams of the listing.
UpstreamAthletes ==
    UNION { { Flatten(rosterBody[k].groups)[j] :
                j \in DOMAIN Flatten(rosterBody[k].groups) } : k \in TeamIds }

\* The athletes with a display name, and the entries with a full name.
NamedAthletes == { a \in UpstreamAthletes : a.isDict /\ a.nameK = "str" }

NamedEntries ==
    { p \in { sleeperBody.entries[j] : j \in DOMAIN sleeperBody.entries } :
        p.isDict /\ p.nameK = "str" }

\* C1 (as claimed): get_complete_player_data on a non-empty query returns a
\* record, never None and never an exception, whose name is a non-empty
\* string: the query, or the display name of an athlete matching the query.
C1_AlwaysANamedRecord ==
    (out.op = "complete" /\ out.query # <<>>)
        => /\ ~out.raised /\ ~out.isNone
           /\ player_data # NoRecord
           /\ player_data.name # <<>>
           /\ \/ player_data.name = out.query
              \/ \E a \in NamedAthletes :
                    /\ a.displayName = player_data.name
                    /\ EspnNameMatches(out.query, a.displayName)

\* Provider A has no athlete whose display name contains or is contained by
\* the normalized query (names trimmed as well, the widest reading).
NoEspnEntity(query) ==
    \A a \in NamedAthletes : ~TrimmedContainment(query, a.displayName)

\* search_player's own test finds no athlete for the query.
NoEspnMatch(query) ==
    \A a \in NamedAthletes : ~EspnNameMatches(query, a.displayName)

\* C2 (as claimed): when Provider A has no athlete for the query, the record
\* has no espn_id entry at all, and position "PLAYER" and team "NFL".
C2_NoEspnIdWithoutMatch ==
    (out.op = "complete" /\ NoEspnEntity(out.query))
        => /\ player_data # NoRecord
           /\ "espn_id" \notin DOMAIN player_data
           /\ player_data.position = "PLAYER"
           /\ player_data.team = "NFL"

\* C2 (amended): when search_player finds no athlete for the query, the
\* record carries the placeholder id "fallback" under espn_id, the query as
\* name, and position "PLAYER" and team "NFL".
C2_FallbackIdWithoutMatch ==
    (out.op = "complete" /\ NoEspnMatch(out.query))
        => /\ ~out.raised /\ player_data # NoRecord
           /\ player_data.espn_id = "fallback"
           /\ player_data.name = out.query
           /\ player_data.position = "PLAYER"
           /\ player_data.team = "NFL"

\* The listing and a non-empty roster arrived, and none of the athletes
\* served matches the query.
C2_Witness ==
    /\ out.op = "complete" /\ NoEspnMatch(out.query)
    /\ _team_rosters["1"].present /\ _team_rosters["1"].athletes # <<>>
    /\ _team_rosters["2"].present /\ _team_rosters["2"].athletes # <<>>
    /\ player_data # NoRecord /\ player_data.espn_id = "fallback"

\* get_player_by_name's own test finds no entry for the query.
NoSleeperMatch(query) ==
    \A p \in NamedEntries : ~SleeperNameMatches(query, p.full_name)

C9_MalformedNeverRaises ==
    out.op \in {"complete", "injury", "context"} => ~out.raised

\* The entries of an aggregated record that Provider A supplies, and those
\* that Provider B supplies.
EspnFields(record) ==
    IF record = NoRecord THEN NoRecord
    ELSE [name |-> record.name, position |-> record.position, team |-> record.team,
          espn_id |-> record.espn_id, espn_data |-> record.espn_data]

SleeperFields(record) ==
    IF "sleeper_id" \in DOMAIN record
    THEN [found |-> TRUE, sleeper_id |-> record.sleeper_id,
          sleeper_data |-> record.sleeper_data]
    ELSE [found |-> FALSE, sleeper_id |-> "", sleeper_data |-> SleeperNotADict]

EspnEndpoints == {"teams"} \cup TeamIds

\* C8: in every state the services can be in, for every query and every
\* pattern of failing requests: no adapter operation raises, a failed request
\* becomes the fallback player, no Sleeper player, no injuries or the default
\* statistics; the Provider A entries of the record are those of the same
\* call with Sleeper answering, and the Provider B entries are those of the
\* same call with ESPN answering.
C8_OutageIsContained ==
    \A player_name \in Queries, failing \in FailurePatterns :
        LET oc == Oc(failing)
            e  == search_player(player_name, _team_rosters, oc)
            sl == get_player_by_name(player_name, _players_cache, oc["players"])
            r  == get_complete_player_data(player_name, _team_rosters,
                                           _players_cache, oc)
        IN  /\ ~e.raised /\ ~e.isNone /\ ~sl.raised
            /\ "teams" \in failing => e.player = CreateFallbackPlayer(player_name)
            /\ "players" \in failing =>
                  /\ ~sl.found
                  /\ \A k \in FailKinds, team \in {"KC", "BAL"} :
                        LET inj == get_team_injuries(team, "QB", _players_cache, k)
                        IN  ~inj.raised /\ inj.injuries = <<>>
                  /\ LET r0 == get_complete_player_data(
                                   player_name, _team_rosters, _players_cache,
                                   Oc(failing \ {"players"}))
                     IN  /\ r.raised = r0.raised /\ r.isNone = r0.isNone
                         /\ EspnFields(r.record) = EspnFields(r0.record)
            /\ failing \cap EspnEndpoints # {} =>
                  /\ ~r.raised => SleeperFields(r.record) =
                                     [found |-> sl.found, sleeper_id |-> sl.player.sleeper_id,
                                      sleeper_data |-> sl.player]
                  /\ LET r1 == get_complete_player_data(
                                   player_name, _team_rosters, _players_cache,
                                   Oc(failing \ EspnEndpoints))
                     IN  (~r.raised /\ ~r1.raised)
                             => SleeperFields(r.record) = SleeperFields(r1.record)
            /\ \A k \in FailKinds, id \in {"fallback", "e1"} :
                  LET st == espn_get_player_stats(id, k)
                  IN  ~st.raised /\ st.statsK = "mock"

\* ESPN was out for a query that its roster would have matched, and the
\* record still carries what Sleeper found; the roster of team "1" was not
\* obtained.
C8_Witness ==
    /\ out.op = "complete" /\ ~out.raised
    /\ ~NoEspnMatch(out.query)
    /\ player_data.espn_id = "fallback"
    /\ "sleeper_id" \in DOMAIN player_data
    /\ ~_team_rosters["1"].present

\* The roster items search_player has gone through or would go through
\* next: the rosters held by the cache, teams in listing order.
RECURSIVE RostersInOrder(_)
RostersInOrder(i) ==
    IF i > Len(espnTeams) THEN <<>>
    ELSE (IF _team_rosters[espnTeams[i].id].present
          THEN _team_rosters[espnTeams[i].id].athletes ELSE <<>>)
         \o RostersInOrder(i + 1)

\* The tests of lines 44-54 (ESPN) and 43-45 (Sleeper) on one item.
AthleteMatches(query, a) ==
    a.isDict /\ a.nameK = "str" /\ EspnNameMatches(query, a.displayName)

EntryMatches(query, p) ==
    /\ p.isDict /\ p.nameK # "null"
    /\ SleeperNameMatches(query, IF p.nameK = "missing" THEN <<>> ELSE p.full_name)

\* C11: the athlete a record was built from is the first roster item, teams
\* in listing order and items in roster order, that matches the query, and
\* the Sleeper player of the record is the first entry of the player map that
\* matches it; each provider contributes that one entity only.
C11_FirstMatchPerProvider ==
    (out.op = "complete" /\ player_data # NoRecord)
        => /\ player_data.espn_id # "fallback" =>
                \E n \in DOMAIN RostersInOrder(1) :
                    /\ RostersInOrder(1)[n] = player_data.espn_data
                    /\ AthleteMatches(out.query, RostersInOrder(1)[n])
                    /\ \A m \in 1..(n - 1) :
                          ~AthleteMatches(out.query, RostersInOrder(1)[m])
           /\ "sleeper_id" \in DOMAIN player_data =>
                \E n \in DOMAIN _players_cache.entries :
                    /\ _players_cache.entries[n] = player_data.sleeper_data
                    /\ player_data.sleeper_id = _players_cache.entries[n].sid
                    /\ EntryMatches(out.query, _players_cache.entries[n])
                    /\ \A m \in 1..(n - 1) :
                          ~EntryMatches(out.query, _players_cache.entries[m])

\* Two athletes and two Sleeper players match the query; the record holds
\* the first athlete ("Ab") and the first Sleeper player ("Bc").
C11_Witness ==
    /\ out.op = "complete" /\ player_data # NoRecord
    /\ Cardinality({ a \in NamedAthletes : AthleteMatches(out.query, a) }) > 1
    /\ Cardinality({ p \in NamedEntries : EntryMatches(out.query, p) }) > 1
    /\ player_data.espn_id = "e1"
    /\ "sleeper_id" \in DOMAIN player_data /\ player_data.sleeper_id = "s2"

\* C12 (as claimed): the record built from the fallback player has the
\* query in title case as its name, position "PLAYER" and team "NFL".
C12_FallbackNameTitleCased ==
    (out.op = "complete" /\ player_data # NoRecord /\ player_data.espn_id = "fallback")
        => /\ player_data.name = TitleCase(out.query)
           /\ player_data.position = "PLAYER"
           /\ player_data.team = "NFL"

\* C12 (amended): the record built from the fallback player has the query
\* exactly as it was given as its name (no change of case, no trimming),
\* position "PLAYER" and team "NFL".
C12_FallbackNameIsQuery ==
    (out.op = "complete" /\ player_data # NoRecord /\ player_data.espn_id = "fallback")
        => /\ player_data.name = out.query
           /\ player_data.espn_data.displayName = out.query
           /\ player_data.position = "PLAYER"
           /\ player_data.team = "NFL"

\* A fallback record for a query that title-casing would change.
C12_Witness ==
    /\ out.op = "complete" /\ player_data # NoRecord
    /\ player_data.espn_id = "fallback"
    /\ TitleCase(out.query) # out.query
    /\ Lower(out.query) = out.query

\* C13: a record built from a matched athlete has that athlete's display
\* name, its position abbreviation ("N/A" when the athlete has no position)
\* and the abbreviation of the listed team whose roster holds the athlete,
\* whatever team and position the Sleeper player of the record carries.
C13_ProviderAIsAuthoritative ==
    (out.op = "complete" /\ player_data # NoRecord /\ player_data.espn_id # "fallback")
        => \E i \in DOMAIN espnTeams :
             \E j \in DOMAIN Flatten(rosterBody[espnTeams[i].id].groups) :
               LET a == Flatten(rosterBody[espnTeams[i].id].groups)[j]
               IN  /\ a.isDict /\ a.id = player_data.espn_id
                   /\ player_data.name = a.displayName
                   /\ player_data.position = (IF a.posK = "obj" THEN a.abbr ELSE "N/A")
                   /\ player_data.team = espnTeams[i].abbreviation

\* ESPN matched "Ab" of KC, a QB, and Sleeper matched a player it lists as
\* a WR of BAL.
C13_Witness ==
    /\ out.op = "complete" /\ player_data # NoRecord
    /\ player_data.espn_id = "e1"
    /\ player_data.team = "KC" /\ player_data.position = "QB"
    /\ "sleeper_data" \in DOMAIN player_data
    /\ player_data.sleeper_data.team = "BAL"
    /\ player_data.sleeper_data.position = "WR"

\* The Sleeper entries that are injured players of the record's team and
\* position group, other than the subject of the record.
InjuredTeammates(record) ==
    { p \in NamedEntries :
        /\ p.team # "" /\ UpperS(p.team) = UpperS(record.team)
        /\ p.position # ""
        /\ MatchesPositionGroup(p.position, GetPositionGroup(record.position))
        /\ p.injury_status \notin {"", " "}
        /\ Lower(p.full_name) # Lower(record.name) }

\* C14 (as claimed): for a record built from a matched athlete, when the
\* Sleeper player map has been obtained and holds injured players of the
\* same team and position group other than the subject, get_team_context
\* returns a non-empty injured_teammates list.
C14_TeammatesReported ==
    (/\ out.op = "context"
     /\ player_data.espn_id # "fallback"
     /\ _players_cache.shape = "dict"
     /\ InjuredTeammates(player_data) # {})
        => out.injured_teammates # <<>>

\* C15: the injured_teammates list that get_team_context returns holds no
\* entry whose name equals the name of the record's subject, letter case
\* ignored.
C15_SubjectNotListed ==
    out.op = "context"
        => \A j \in DOMAIN out.injured_teammates :
             Lower(out.injured_teammates[j].name) # Lower(player_data.name)

\* get_team_context has answered for a subject that Sleeper lists as
\* injured on the record's team and position group, next to an injured
\* teammate.
C15_Witness ==
    /\ out.op = "context"
    /\ player_data.espn_id # "fallback"
    /\ _players_cache.shape = "dict"
    /\ InjuredTeammates(player_data) # {}
    /\ \E p \in NamedEntries :
          /\ Lower(p.full_name) = Lower(player_data.name)
          /\ p.team # "" /\ UpperS(p.team) = UpperS(player_data.team)
          /\ p.position # ""
          /\ MatchesPositionGroup(p.position, GetPositionGroup(player_data.position))
          /\ p.injury_status \notin {"", " "}

\* C16 (as claimed): when the record holds a Sleeper player (Provider B
\* matched the query) whose injury_status is not blank, get_player_injury
\* returns that status, not "Healthy", whatever team and position the record
\* has from Provider A.
C16_StatusOfSleeperMatch ==
    (/\ out.op = "injury"
     /\ "sleeper_data" \in DOMAIN player_data
     /\ player_data.sleeper_data.injury_status \notin {"", " "})
        => /\ out.status # Healthy
           /\ out.status.status = UpperS(player_data.sleeper_data.injury_status)
           /\ out.status.part = player_data.sleeper_data.injury_body_part

\* C17 (as claimed): get_player_stats on a fallback record (and
\* ESPNService.get_player_stats on the fallback id) returns None and sends
\* no request.
C17_NoStatsForFallback ==
    (out.op = "stats" /\ player_data.espn_id = "fallback")
        => /\ out.statsK = "none"
           /\ out.reqs = <<>>
           /\ \A o \in Outcomes :
                 LET st == espn_get_player_stats("fallback", o)
                 IN  st.statsK = "none" /\ ~st.requested

\* C17 (amended): get_player_stats on a fallback record (and
\* ESPNService.get_player_stats on the fallback id) returns the bundle of
\* _create_mock_stats, not None, does not raise and sends no request.
C17_MockStatsForFallback ==
    (out.op = "stats" /\ player_data.espn_id = "fallback")
        => /\ ~out.raised
           /\ out.statsK = "mock"
           /\ out.reqs = <<>>
           /\ \A o \in Outcomes :
                 LET st == espn_get_player_stats("fallback", o)
                 IN  ~st.raised /\ st.statsK = "mock" /\ ~st.requested

\* get_player_stats has answered for a fallback record.
C17_Witness ==
    /\ out.op = "stats"
    /\ player_data.espn_id = "fallback"
    /\ player_data.name = out.query

\* C18 (as claimed): within one aggregation, a method called after a fetch
\* of an endpoint has failed does not request that endpoint again.
C18_FailedNotRequestedAgain ==
    [][(out.op # "none" /\ out'.op \in {"stats", "injury", "context"})
          => \A i \in DOMAIN out'.reqs : out'.reqs[i] \notin out.failed]_vars

\* C18 (amended): there is no retry inside a call: each call of the four
\* methods requests an endpoint at most once, and get_player_stats,
\* get_player_injury and get_team_context do not raise; mock statistics
\* after a request mean that the request failed.
C18_NoRetryInsideACall ==
    /\ \A i, j \in DOMAIN out.reqs : out.reqs[i] = out.reqs[j] => i = j
    /\ out.op \in {"stats", "injury", "context"} => ~out.raised
    /\ (out.op = "stats" /\ out.reqs = <<"stats">> /\ out.statsK = "mock")
          => "stats" \in out.failed

\* The player map failed earlier in the aggregation and get_player_injury
\* has requested it again, this time with success.
C18_Witness ==
    /\ out.op = "injury"
    /\ "players" \in out.failed
    /\ out.reqs = <<"players">>
    /\ out.status # Healthy

\* C19: once a search has succeeded on the instance (a roster is cached), a
\* later search requests neither the team listing nor a cached roster, and a
\* player of a cached roster is still found whatever fails upstream.
C19_ListingCached ==
    [][(out'.op = "complete" /\ \E k \in TeamIds : _team_rosters[k].present)
          => /\ \A i \in DOMAIN out'.reqs :
                   /\ out'.reqs[i] # "teams"
                   /\ out'.reqs[i] \in TeamIds => ~_team_rosters[out'.reqs[i]].present
             /\ (/\ player_data' # NoRecord
                 /\ \E k \in TeamIds :
                      /\ _team_rosters[k].present
                      /\ \E j \in DOMAIN _team_rosters[k].athletes :
                            AthleteMatches(out'.query, _team_rosters[k].athletes[j]))
                   => player_data'.espn_id # "fallback"]_vars

\* C20: for a query that is not blank, neither the athlete nor the Sleeper
\* player a record was built from has an empty or missing name.
C20_UnnamedNeverMatched ==
    (out.op = "complete" /\ player_data # NoRecord /\ Strip(out.query) # <<>>)
        => /\ player_data.espn_id # "fallback"
                => /\ player_data.espn_data.nameK = "str"
                   /\ player_data.espn_data.displayName # <<>>
           /\ "sleeper_data" \in DOMAIN player_data
                => /\ player_data.sleeper_data.nameK = "str"
                   /\ player_data.sleeper_data.full_name # <<>>

\* The first item of a roster that matches the query, 0 when there is none.
FirstMatch(query, roster) ==
    LET hits == { j \in DOMAIN roster : AthleteMatches(query, roster[j]) }
    IN  IF hits = {} THEN 0 ELSE CHOOSE j \in hits : \A h \in hits : j <= h

\* C21: when the roster request of the first listed team fails during a
\* search, the roster stays uncached, the second team is still visited (its
\* roster is requested unless it was cached), the record is built from the
\* first matching athlete of the second team, or from the fallback player
\* when that team has none; and a search that finds the first team's roster
\* uncached requests it.
C21_FailedRosterSkipped ==
    [][out'.op = "complete"
         => /\ "1" \in out'.failed
                 => /\ ~_team_rosters'["1"].present
                    /\ SelectSeq(out'.reqs, LAMBDA e : e # "players")
                          = (IF _team_rosters["2"].present
                             THEN <<"teams", "1">> ELSE <<"teams", "1", "2">>)
                    /\ ("2" \notin out'.failed /\ player_data' # NoRecord)
                          => LET roster == _team_rosters'["2"].athletes
                                 j      == FirstMatch(out'.query, roster)
                             IN  /\ _team_rosters'["2"].present
                                 /\ IF j = 0 THEN player_data'.espn_id = "fallback"
                                    ELSE /\ player_data'.espn_id = roster[j].id
                                         /\ player_data'.name = roster[j].displayName
                                         /\ player_data'.team = "BAL"
                    /\ ("2" \in out'.failed /\ player_data' # NoRecord)
                          => player_data'.espn_id = "fallback"
            /\ (~_team_rosters["1"].present /\ "teams" \notin out'.failed)
                 => (Len(out'.reqs) >= 2 /\ out'.reqs[2] = "1")]_vars

\* The roster of the first team has failed again in a later search (the
\* second team's roster was cached by an earlier one), and the record is the
\* athlete "Bc" of the second team.
C21_Witness ==
    /\ out.op = "complete"
    /\ SelectSeq(out.reqs, LAMBDA e : e # "players") = <<"teams", "1">>
    /\ out.failed = {"1"}
    /\ ~_team_rosters["1"].present /\ _team_rosters["2"].present
    /\ player_data # NoRecord
    /\ player_data.espn_id = "e8" /\ player_data.team = "BAL"

\* C22: the derived group of FB is RB and of PK is K, of QB, RB, WR, TE and
\* K the position itself, of any other position the position in upper case,
\* all whatever the letter case; every position matches its own derived
\* group; and of two positions with different derived groups neither matches
\* the group of the other.
C22_GroupAndMembershipAgree ==
    mres.done
        => /\ mres.group = (CASE UpperS(mq) = "FB" -> "RB"
                              [] UpperS(mq) = "PK" -> "K"
                              [] OTHER -> UpperS(mq))
           /\ mres.own
           /\ mres.group # mres.other => (~mres.cross /\ ~mres.back)

\* A lower-case fullback and a placekicker: absorbed by RB and by K, two
\* different groups.
C22_Witness ==
    /\ mres.done
    /\ mq = "fb" /\ mc = "PK"
    /\ mres.group = "RB" /\ mres.other = "K"
    /\ mres.own /\ ~mres.cross /\ ~mres.back


=============================================================================
